---- MODULE Spec2Model ----
(***************************************************************************)
(* A model of src/main.py (eco-routing): the simulated traffic source,     *)
(* the fuel-consumption estimator, the route selector and the driver.      *)
(*                                                                         *)
(* Python floats are IEEE-754 binary64 numbers.  The estimator's result    *)
(* decides which route wins, so its arithmetic is modelled bit for bit:    *)
(* a finite positive double is a 53-bit significand (a sequence of bits,   *)
(* least significant first) and the exponent of its last bit, and every    *)
(* operation rounds to nearest, ties to even.  The inputs of the model are *)
(* small, so the exponent range of binary64 is never approached and        *)
(* neither overflow nor subnormal numbers arise.                           *)
(***************************************************************************)
EXTENDS Integers, Sequences, FiniteSets, TLC

(***************************************************************************)
(* Natural numbers of any size, as sequences of bits, least significant    *)
(* bit first.                                                              *)
(*                                                                         *)
(* An operator that uses an argument several times binds its value first   *)
(* (CHOOSE r \in {F(v) : v \in {argument}} : TRUE is F(argument)): TLC     *)
(* would otherwise compute the argument anew at every use.                 *)
(***************************************************************************)

\* The precision of a Python float: an IEEE-754 binary64 significand.
MantBits == 53

RECURSIVE Pow2(_)
Pow2(k) == IF k = 0 THEN 1 ELSE 2 * Pow2(k - 1)

\* The k low bits of the small natural n.
BitsOf(n, k) == [i \in 1..k |-> (n \div Pow2(i - 1)) % 2]

\* The small natural whose bits are b.
RECURSIVE BitsToNat(_)
BitsToNat(b) == IF b = << >> THEN 0 ELSE b[1] + 2 * BitsToNat(Tail(b))

Zeros(k) == [i \in 1..k |-> 0]

\* b without its leading (most significant) zero bits.
Trim(b) ==
    LET top == {i \in 1..Len(b) : b[i] = 1}
    IN  IF top = {} THEN << >>
        ELSE SubSeq(b, 1, CHOOSE i \in top : \A j \in top : j <= i)

\* A natural is multiplied limb by limb: a limb is LimbBits bits of it, and
\* a product of two limbs and a carry stay within TLC's 32-bit integers.
LimbBits == 13

\* The limbs of b, the least significant first.
RECURSIVE ToLimbs(_)
ToLimbs(b) ==
    IF Len(b) <= LimbBits THEN <<BitsToNat(b)>>
    ELSE <<BitsToNat(SubSeq(b, 1, LimbBits))>>
            \o ToLimbs(SubSeq(b, LimbBits + 1, Len(b)))

\* The bits of the natural whose limbs are l.
FromLimbs(l) ==
    [i \in 1..(LimbBits * Len(l)) |->
        (l[(i - 1) \div LimbBits + 1] \div Pow2((i - 1) % LimbBits)) % 2]

\* The sum of the limb products a[i] * b[j] that fall on limb k of a * b.
RECURSIVE Column(_, _, _, _)
Column(a, b, k, i) ==
    IF i > Len(a) THEN 0
    ELSE (IF k - i + 1 \in 1..Len(b) THEN a[i] * b[k - i + 1] ELSE 0)
            + Column(a, b, k, i + 1)

\* The limbs of a * b from limb k on.
RECURSIVE MulFrom(_, _, _, _)
MulFrom(a, b, k, carry) ==
    IF k > Len(a) + Len(b) THEN << >>
    ELSE CHOOSE r \in
            {<<t % Pow2(LimbBits)>>
                \o MulFrom(a, b, k + 1, t \div Pow2(LimbBits)) :
             t \in {Column(a, b, k, 1) + carry}} : TRUE

\* The exact product of two naturals.
MulBits(a, b) ==
    CHOOSE r \in
        {CHOOSE t \in {Trim(bits) : bits \in {FromLimbs(product)}} : TRUE :
         product \in {MulFrom(la, lb, 1, 0) :
                        la \in {ToLimbs(a)}, lb \in {ToLimbs(b)}}} : TRUE

\* b + 1.
IncBits(b) ==
    LET zero == {i \in 1..Len(b) : b[i] = 0}
    IN  IF zero = {} THEN Zeros(Len(b)) \o <<1>>
        ELSE LET z == CHOOSE i \in zero : \A j \in zero : i <= j
             IN  [i \in 1..Len(b) |->
                    IF i < z THEN 0 ELSE IF i = z THEN 1 ELSE b[i]]

\* Whether a < b, for two naturals of the same number of bits.
LessBits(a, b) ==
    \E i \in 1..Len(a) :
        /\ a[i] < b[i]
        /\ \A j \in (i + 1)..Len(a) : a[j] = b[j]

(***************************************************************************)
(* IEEE-754 binary64 values that are zero, positive and finite, or +inf.   *)
(* A "normal" value is m * 2^e, m a significand of MantBits bits whose     *)
(* most significant bit is 1.                                              *)
(***************************************************************************)

FZero == [cls |-> "zero", m |-> << >>, e |-> 0]

\* float('inf')
FInf == [cls |-> "inf", m |-> << >>, e |-> 0]

FNormal(m, e) == [cls |-> "normal", m |-> m, e |-> e]

\* The MantBits leading bits of n, plus one when `up`; n has more bits.
Rounded(n, e, up) ==
    CHOOSE r \in
        {IF Len(q) > MantBits
         THEN FNormal(Tail(q), e + Len(n) - MantBits + 1)
         ELSE FNormal(q, e + Len(n) - MantBits) :
         q \in {IF up THEN IncBits(SubSeq(n, Len(n) - MantBits + 1, Len(n)))
                ELSE SubSeq(n, Len(n) - MantBits + 1, Len(n))}} : TRUE

\* The double nearest to v * 2^e, ties to even, for a natural v; `sticky`
\* says that a nonzero fraction of 2^e is to be added to v.
RoundValue(n, e, sticky) ==
    IF Len(n) <= MantBits
    THEN FNormal(Zeros(MantBits - Len(n)) \o n, e - (MantBits - Len(n)))
    ELSE LET sh    == Len(n) - MantBits
             guard == n[sh]
             low   == sticky \/ \E i \in 1..(sh - 1) : n[i] = 1
             odd   == n[sh + 1] = 1
         IN  Rounded(n, e, guard = 1 /\ (low \/ odd))

RoundNearestEven(v, e, sticky) ==
    CHOOSE r \in {RoundValue(n, e, sticky) : n \in {v}} : TRUE

\* The first `count` bits after the leading 1 of (r + d) / d, where r < d,
\* followed by the remainder left; the bits are produced eight at a time.
RECURSIVE QuotientBits(_, _, _)
QuotientBits(r, d, count) ==
    IF count = 0 THEN [bits |-> << >>, rem |-> r]
    ELSE LET k == IF count > 8 THEN 8 ELSE count
         IN  CHOOSE q \in
                {[bits |-> rest.bits \o BitsOf((r * Pow2(k)) \div d, k),
                  rem  |-> rest.rem] :
                 rest \in {QuotientBits((r * Pow2(k)) % d, d, count - k)}} : TRUE

\* The s with b * 2^s <= a < b * 2^(s+1), with the operands so scaled.
RECURSIVE Scale(_, _, _)
Scale(a, b, s) ==
    IF a < b THEN Scale(2 * a, b, s - 1)
    ELSE IF a >= 2 * b THEN Scale(a, 2 * b, s + 1)
    ELSE [a |-> a, b |-> b, s |-> s]

\* a / b for two Python ints (a >= 0, b > 0), and the value of a decimal
\* literal a/b: the double nearest to the quotient.
FDivInt(a, b) ==
    IF a = 0 THEN FZero
    ELSE CHOOSE r \in
            {RoundNearestEven(qb.bits \o <<1>>, sc.s - MantBits, qb.rem # 0) :
             sc \in {Scale(a, b, 0)},
             qb \in {QuotientBits(t.a - t.b, t.b, MantBits) :
                        t \in {Scale(a, b, 0)}}} : TRUE

\* x * y for two values bound.
FMulValues(x, y) ==
    IF x.cls = "zero" \/ y.cls = "zero" THEN FZero
    ELSE RoundNearestEven(MulBits(x.m, y.m), x.e + y.e, FALSE)

\* x * y
FMul(x, y) == CHOOSE r \in {FMulValues(a, b) : a \in {x}, b \in {y}} : TRUE

\* x < y for two values bound.
FLessValues(x, y) ==
    IF x.cls = "inf" THEN FALSE
    ELSE IF y.cls = "inf" THEN TRUE
    ELSE IF y.cls = "zero" THEN FALSE
    ELSE IF x.cls = "zero" THEN TRUE
    ELSE IF x.e # y.e THEN x.e < y.e
    ELSE LessBits(x.m, y.m)

\* x < y
FLess(x, y) == \E a \in {x}, b \in {y} : FLessValues(a, b)

\* The hundredths in n * 2^(-sh), rounded to nearest, ties to even.
Hundredths(n, sh) ==
    LET q     == IF sh >= Len(n) THEN << >> ELSE SubSeq(n, sh + 1, Len(n))
        guard == IF sh \in 1..Len(n) THEN n[sh] ELSE 0
        low   == \E i \in 1..(sh - 1) : i <= Len(n) /\ n[i] = 1
        odd   == q # << >> /\ q[1] = 1
    IN  BitsToNat(q) + (IF guard = 1 /\ (low \/ odd) THEN 1 ELSE 0)

\* What f"{x:.2f}" prints for the value x bound: the number of hundredths
\* nearest to x, as the pair of the integer part and the two digits.
FormatValue(x) ==
    IF x.cls = "zero" THEN <<0, 0>>
    ELSE CHOOSE r \in
            {<<h \div 100, h % 100>> :
             h \in {Hundredths(n, IF x.e >= 0 THEN 0 ELSE 0 - x.e) :
                      n \in {IF x.e >= 0 THEN Zeros(x.e) \o v ELSE v :
                               v \in {MulBits(x.m, BitsOf(100, 7))}}}} : TRUE

\* f"{x:.2f}"
FormatF2(x) == CHOOSE r \in {FormatValue(v) : v \in {x}} : TRUE

(***************************************************************************)
(* Python values.  None is the empty tuple and any other value v is <<v>>, *)
(* so that a variable may hold either.  A call's outcome is what it        *)
(* returned, the lines it printed and the exception that left it ("none"   *)
(* when it returned).                                                      *)
(***************************************************************************)

None == << >>
Some(v) == <<v>>

Line(text, args) == [text |-> text, args |-> args]

Returned(value, printed) ==
    [ret |-> value, printed |-> printed, raised |-> "none", msg |-> ""]

Raised(exception, msg) ==
    [ret |-> None, printed |-> << >>, raised |-> exception, msg |-> msg]

(***************************************************************************)
(* The mock traffic data.  A dict is the sequence of its items in          *)
(* insertion order, which is the order a Python dict iterates in.  A       *)
(* traffic condition is written with one fractional digit and is kept as   *)
(* its number of tenths; Multiplier gives the float the literal denotes.   *)
(***************************************************************************)

Route(name, distance_km, tenths) ==
    [route |-> name, distance_km |-> distance_km, traffic_condition |-> tenths]

MOCK_TRAFFIC_DATA ==
    << Route("route_1", 10, 12),
       Route("route_2", 12, 10),
       Route("route_3", 8, 15) >>

Multiplier(tenths) == FDivInt(tenths, 10)

(***************************************************************************)
(* fetch_real_time_traffic_data                                            *)
(***************************************************************************)

\* 0.15
Threshold == FDivInt(15, 100)

\* The comparison written as "greater than": a delay equal to the threshold
\* is no timeout.
TimedOutStrict(network_delay) == FLess(Threshold, network_delay)

\* if network_delay >= 0.15
TimedOut(network_delay) == ~FLess(network_delay, Threshold)

\* print(f"Error fetching traffic data: {e}")
FetchDiag(msg) == Line("Error fetching traffic data: {e}", <<msg>>)

\* The except clause without ValueError.
FetchCaughtConnectionOnly == {"ConnectionError"}

\* except (ConnectionError, ValueError) as e
FetchCaught == {"ConnectionError", "ValueError"}

\* The body of the try statement: network_delay is what random.uniform(0, 0.2)
\* gave and choice what random.choice([True, False]) gives.
FetchTry(network_delay, choice) ==
    IF TimedOut(network_delay)
    THEN Raised("ConnectionError", "Network timeout.")
    ELSE IF choice
         THEN Returned(Some(MOCK_TRAFFIC_DATA), << >>)
         ELSE Raised("ValueError", "Failed to fetch traffic data.")

fetch_real_time_traffic_data(network_delay, choice) ==
    LET try == FetchTry(network_delay, choice)
    IN  IF try.raised \in FetchCaught
        THEN Returned(None, <<FetchDiag(try.msg)>>)
        ELSE try

(***************************************************************************)
(* calculate_fuel_efficiency                                               *)
(***************************************************************************)

\* base_fuel_efficiency = 7.0
base_fuel_efficiency == FDivInt(7, 1)

\* The product taken in another order:
\* (distance_km / 100) * traffic_condition * base_fuel_efficiency
EstimateReordered(distance_km, traffic_condition) ==
    FMul(FMul(FDivInt(distance_km, 100), traffic_condition),
         base_fuel_efficiency)

\* The distance left out: base_fuel_efficiency * traffic_condition
EstimateWithoutDistance(distance_km, traffic_condition) ==
    FMul(base_fuel_efficiency, traffic_condition)

\* (distance_km / 100) * base_fuel_efficiency * traffic_condition
calculate_fuel_efficiency(distance_km, traffic_condition) ==
    FMul(FMul(FDivInt(distance_km, 100), base_fuel_efficiency),
         traffic_condition)

\* The consumption of one item of the traffic data.
Consumption(data) ==
    calculate_fuel_efficiency(data.distance_km,
                              Multiplier(data.traffic_condition))

(***************************************************************************)
(* find_most_efficient_route                                               *)
(***************************************************************************)

\* The test written as "traffic_data is None": the empty dict passes it.
FalsyNoneOnly(traffic_data) == traffic_data = None

\* not traffic_data: None and the empty dict are false.
Falsy(traffic_data) == traffic_data = None \/ traffic_data[1] = << >>

\* The loop with "<=" for "<": of two items of the same consumption the later
\* one is kept.
RECURSIVE ScanRoutesLastMin(_, _, _, _)
ScanRoutesLastMin(items, i, best_route, min_fuel_consumption) ==
    IF i > Len(items)
    THEN Returned(<<best_route, Some(min_fuel_consumption)>>, << >>)
    ELSE CHOOSE r \in
            {IF ~FLess(min_fuel_consumption, fuel_consumption)
             THEN ScanRoutesLastMin(items, i + 1, Some(items[i].route),
                                    fuel_consumption)
             ELSE ScanRoutesLastMin(items, i + 1, best_route,
                                    min_fuel_consumption) :
             fuel_consumption \in {Consumption(items[i])}} : TRUE

\* The for loop from item i on.
RECURSIVE ScanRoutes(_, _, _, _)
ScanRoutes(items, i, best_route, min_fuel_consumption) ==
    IF i > Len(items)
    THEN Returned(<<best_route, Some(min_fuel_consumption)>>, << >>)
    ELSE CHOOSE r \in
            {IF FLess(fuel_consumption, min_fuel_consumption)
             THEN ScanRoutes(items, i + 1, Some(items[i].route), fuel_consumption)
             ELSE ScanRoutes(items, i + 1, best_route, min_fuel_consumption) :
             fuel_consumption \in {Consumption(items[i])}} : TRUE

\* The body of the try statement.
SelectTry(traffic_data) ==
    IF Falsy(traffic_data)
    THEN Raised("ValueError", "Traffic data is not available.")
    ELSE ScanRoutes(traffic_data[1], 1, None, FInf)

\* The except clause naming another exception.
SelectCaughtKeyError == {"KeyError"}

\* except ValueError as e
SelectCaught == {"ValueError"}

\* print(f"Error in finding route: {e}")
SelectDiag(msg) == Line("Error in finding route: {e}", <<msg>>)

find_most_efficient_route(traffic_data) ==
    LET try == SelectTry(traffic_data)
    IN  IF try.raised \in SelectCaught
        THEN Returned(<<None, None>>, <<SelectDiag(try.msg)>>)
        ELSE try

(***************************************************************************)
(* The state: main's variables and position, what was printed, and how     *)
(* the process ended.                                                      *)
(***************************************************************************)

VARIABLES
    pc,                \* main's position, or how the run ended
    network_delay,     \* what random.uniform(0, 0.2) gave
    choice,            \* what random.choice([True, False]) gives
    traffic_data,
    best_route,
    fuel_consumption,
    out,               \* the lines printed so far
    raised,            \* the exception that reached the caller, or "none"
    exit_status,       \* None while the process runs
    steps,             \* the steps of main taken so far
    est_args,          \* the estimator's arguments, when it is run alone
    est_rets           \* and what it returned

vars == <<pc, network_delay, choice, traffic_data, best_route,
          fuel_consumption, out, raised, exit_status, steps, est_args, est_rets>>

(***************************************************************************)
(* main                                                                    *)
(***************************************************************************)

\* The delays random.uniform(0, 0.2) is taken to give: the multiples of
\* 1/DelayGrid up to 0.2.
DelayGrid == 100

Delays == {FDivInt(k, DelayGrid) : k \in 0..(DelayGrid \div 5)}

FetchingLine == Line("Fetching real-time traffic data...", << >>)
CalculatingLine == Line("Calculating the most efficient route...", << >>)
SuccessText ==
    "The most fuel-efficient route is {best_route} with a fuel consumption of {fuel_consumption:.2f} liters."
SuccessLine(route, fuel) == Line(SuccessText, <<route, FormatF2(fuel)>>)
FailureLine ==
    Line("Could not determine the most efficient route due to errors.", << >>)

\* An exception no except clause caught ends the process with a traceback.
Crash(exception) ==
    /\ pc' = "Crashed"
    /\ raised' = exception
    /\ exit_status' = Some(1)

MainInit ==
    /\ pc = "Fetch"
    /\ network_delay = None
    /\ choice = None
    /\ traffic_data = None
    /\ best_route = None
    /\ fuel_consumption = None
    /\ out = << >>
    /\ raised = "none"
    /\ exit_status = None
    /\ steps = << >>
    /\ est_args = None
    /\ est_rets = None

\* print("Fetching..."); traffic_data = fetch_real_time_traffic_data()
Fetch ==
    /\ pc = "Fetch"
    /\ \E delay \in Delays, ch \in BOOLEAN :
          \E r \in {fetch_real_time_traffic_data(delay, ch)} :
              /\ network_delay' = Some(delay)
              /\ choice' = Some(ch)
              /\ out' = out \o <<FetchingLine>> \o r.printed
              /\ steps' = Append(steps, "Fetch")
              /\ IF r.raised = "none"
                 THEN /\ traffic_data' = r.ret
                      /\ pc' = "Evaluate"
                      /\ UNCHANGED <<raised, exit_status>>
                 ELSE /\ Crash(r.raised)
                      /\ UNCHANGED traffic_data
    /\ UNCHANGED <<best_route, fuel_consumption, est_args, est_rets>>

\* main calling the selector only when the fetch gave a snapshot.
EvaluateGuarded ==
    /\ pc = "Evaluate"
    /\ \E r \in {IF traffic_data = None THEN Returned(<<None, None>>, << >>)
                 ELSE find_most_efficient_route(traffic_data)} :
           /\ out' = out \o <<CalculatingLine>> \o r.printed
           /\ steps' = Append(steps, "Evaluate")
           /\ IF r.raised = "none"
              THEN /\ best_route' = r.ret[1]
                   /\ fuel_consumption' = r.ret[2]
                   /\ pc' = "Report"
                   /\ UNCHANGED <<raised, exit_status>>
              ELSE /\ Crash(r.raised)
                   /\ UNCHANGED <<best_route, fuel_consumption>>
    /\ UNCHANGED <<network_delay, choice, traffic_data, est_args, est_rets>>

\* print("Calculating...")
\* best_route, fuel_consumption = find_most_efficient_route(traffic_data)
Evaluate ==
    /\ pc = "Evaluate"
    /\ \E r \in {find_most_efficient_route(traffic_data)} :
           /\ out' = out \o <<CalculatingLine>> \o r.printed
           /\ steps' = Append(steps, "Evaluate")
           /\ IF r.raised = "none"
              THEN /\ best_route' = r.ret[1]
                   /\ fuel_consumption' = r.ret[2]
                   /\ pc' = "Report"
                   /\ UNCHANGED <<raised, exit_status>>
              ELSE /\ Crash(r.raised)
                   /\ UNCHANGED <<best_route, fuel_consumption>>
    /\ UNCHANGED <<network_delay, choice, traffic_data, est_args, est_rets>>

\* if best_route: None and the empty string are false.
Truthy(route) == route # None /\ route[1] # ""

\* main fetching again when no route was found.
ReportRetry ==
    /\ pc = "Report"
    /\ IF Truthy(best_route)
       THEN /\ out' = Append(out, SuccessLine(best_route[1],
                                              fuel_consumption[1]))
            /\ pc' = "Reported-Success"
            /\ exit_status' = Some(0)
       ELSE /\ out' = Append(out, FailureLine)
            /\ pc' = "Fetch"
            /\ UNCHANGED exit_status
    /\ steps' = Append(steps, "Report")
    /\ UNCHANGED <<network_delay, choice, traffic_data, best_route,
                   fuel_consumption, raised, est_args, est_rets>>

\* main without the else branch: nothing is printed when no route was found.
ReportWithoutElse ==
    /\ pc = "Report"
    /\ IF Truthy(best_route)
       THEN /\ out' = Append(out, SuccessLine(best_route[1],
                                              fuel_consumption[1]))
            /\ pc' = "Reported-Success"
       ELSE /\ UNCHANGED out
            /\ pc' = "Reported-Failure"
    /\ steps' = Append(steps, "Report")
    /\ exit_status' = Some(0)
    /\ UNCHANGED <<network_delay, choice, traffic_data, best_route,
                   fuel_consumption, raised, est_args, est_rets>>

\* if best_route: print(success) else: print(failure); the process then ends.
Report ==
    /\ pc = "Report"
    /\ IF Truthy(best_route)
       THEN /\ out' = Append(out, SuccessLine(best_route[1],
                                              fuel_consumption[1]))
            /\ pc' = "Reported-Success"
       ELSE /\ out' = Append(out, FailureLine)
            /\ pc' = "Reported-Failure"
    /\ steps' = Append(steps, "Report")
    /\ exit_status' = Some(0)
    /\ UNCHANGED <<network_delay, choice, traffic_data, best_route,
                   fuel_consumption, raised, est_args, est_rets>>

Init == MainInit

Next == Fetch \/ Evaluate \/ Report

\* Every run of main, for every delay and every choice.
Spec == Init /\ [][Next]_vars

\* main runs to its end: nothing in it waits.
FairSpec == Spec /\ WF_vars(Next)

(***************************************************************************)
(* find_most_efficient_route alone, on every snapshot of at most MaxRoutes *)
(* routes whose distances and traffic conditions are those the source and  *)
(* its description use, and on None.                                       *)
(***************************************************************************)

MaxRoutes == 3

Distances == {8, 10, 12}

Tenths == {10, 12, 15}

RouteNames ==
    <<"route_1", "route_2", "route_3", "route_4", "route_5", "route_6">>

\* The snapshots of n routes: the keys of a dict are distinct.
RECURSIVE Snapshots(_)
Snapshots(n) ==
    IF n = 0 THEN {<< >>}
    ELSE {Append(s, Route(RouteNames[n], d, t)) :
            s \in Snapshots(n - 1), d \in Distances, t \in Tenths}

SelectorInit ==
    /\ pc = "Select"
    /\ traffic_data \in
          {None} \cup {Some(s) : s \in UNION {Snapshots(n) : n \in 0..MaxRoutes}}
    /\ network_delay = None
    /\ choice = None
    /\ best_route = None
    /\ fuel_consumption = None
    /\ out = << >>
    /\ raised = "none"
    /\ exit_status = None
    /\ steps = << >>
    /\ est_args = None
    /\ est_rets = None

\* best_route, fuel_consumption = find_most_efficient_route(traffic_data)
Select ==
    /\ pc = "Select"
    /\ \E r \in {find_most_efficient_route(traffic_data)} :
           /\ out' = r.printed
           /\ raised' = r.raised
           /\ IF r.raised = "none"
              THEN /\ best_route' = r.ret[1]
                   /\ fuel_consumption' = r.ret[2]
              ELSE UNCHANGED <<best_route, fuel_consumption>>
    /\ pc' = "Selected"
    /\ steps' = Append(steps, "Select")
    /\ UNCHANGED <<network_delay, choice, traffic_data, exit_status,
                   est_args, est_rets>>

SelectorSpec == SelectorInit /\ [][Select]_vars

(***************************************************************************)
(* calculate_fuel_efficiency alone, on every two distances d <= d2 up to   *)
(* MaxDistance and every two traffic conditions m <= m2 up to MaxTenths    *)
(* tenths.                                                                 *)
(***************************************************************************)

MaxDistance == 12

MaxTenths == 15

EstimatorInit ==
    /\ pc = "Estimate"
    /\ est_args \in
          {Some([d |-> d, d2 |-> d2, m |-> m, m2 |-> m2]) :
              d \in 0..MaxDistance, d2 \in 0..MaxDistance,
              m \in 0..MaxTenths, m2 \in 0..MaxTenths}
    /\ est_args[1].d <= est_args[1].d2
    /\ est_args[1].m <= est_args[1].m2
    /\ est_rets = None
    /\ network_delay = None
    /\ choice = None
    /\ traffic_data = None
    /\ best_route = None
    /\ fuel_consumption = None
    /\ out = << >>
    /\ raised = "none"
    /\ exit_status = None
    /\ steps = << >>

\* The three calls estimate(d, m), estimate(d2, m) and estimate(d, m2).
Estimate ==
    /\ pc = "Estimate"
    /\ LET a == est_args[1]
       IN  est_rets' =
              Some([dm  |-> calculate_fuel_efficiency(a.d, Multiplier(a.m)),
                    d2m |-> calculate_fuel_efficiency(a.d2, Multiplier(a.m)),
                    dm2 |-> calculate_fuel_efficiency(a.d, Multiplier(a.m2))])
    /\ pc' = "Estimated"
    /\ steps' = Append(steps, "Estimate")
    /\ UNCHANGED <<network_delay, choice, traffic_data, best_route,
                   fuel_consumption, out, raised, exit_status, est_args>>

EstimatorSpec == EstimatorInit /\ [][Estimate]_vars

(***************************************************************************)
(* The properties.                                                         *)
(***************************************************************************)

Terminal == {"Reported-Success", "Reported-Failure"}

TimeoutDiag == Line("Error fetching traffic data: {e}", <<"Network timeout.">>)
UnavailableDiag ==
    Line("Error fetching traffic data: {e}", <<"Failed to fetch traffic data.">>)
NoDataDiag ==
    Line("Error in finding route: {e}", <<"Traffic data is not available.">>)

\* The consumptions of the items of a snapshot, in its order.
RECURSIVE Consumptions(_)
Consumptions(items) ==
    IF items = << >> THEN << >>
    ELSE <<calculate_fuel_efficiency(items[1].distance_km,
                                     FDivInt(items[1].traffic_condition, 10))>>
            \o Consumptions(Tail(items))

\* C1: on a snapshot of at least one route, find_most_efficient_route
\* returns the route of an item whose consumption, as the estimator computes
\* it, no item's consumption is less than, together with that consumption;
\* of the items of that consumption it is the first in the snapshot's order.
C1_SelectsFirstMinimum ==
    (pc = "Selected" /\ traffic_data # None /\ traffic_data[1] # << >>) =>
        \E cs \in {Consumptions(traffic_data[1])} :
            \E i \in 1..Len(cs) :
                /\ raised = "none"
                /\ best_route = Some(traffic_data[1][i].route)
                /\ fuel_consumption = Some(cs[i])
                /\ \A j \in 1..Len(cs) : ~FLess(cs[j], cs[i])
                /\ \A j \in 1..(i - 1) : FLess(cs[i], cs[j])

\* A snapshot whose least consumption two different items share, the first
\* of them not the first item: the selector returned the first of the two.
C1_Witness ==
    /\ pc = "Selected"
    /\ traffic_data # None
    /\ \E cs \in {Consumptions(traffic_data[1])} :
          \E i, j \in 1..Len(cs) :
              /\ 1 < i /\ i < j
              /\ cs[i] = cs[j]
              /\ traffic_data[1][i].distance_km # traffic_data[1][j].distance_km
              /\ \A k \in 1..Len(cs) : ~FLess(cs[k], cs[i])
              /\ FLess(cs[i], cs[1])
              /\ best_route = Some(traffic_data[1][i].route)

\* C2: on None and on the empty snapshot find_most_efficient_route returns
\* (None, None), prints the "Traffic data is not available." diagnostic and
\* lets no exception reach its caller.
C2_AbsentSnapshot ==
    (pc = "Selected" /\ traffic_data \in {None, Some(<< >>)}) =>
        /\ best_route = None
        /\ fuel_consumption = None
        /\ out = <<NoDataDiag>>
        /\ raised = "none"

\* The selector was given the empty snapshot and reported it.
C2_Witness ==
    /\ pc = "Selected"
    /\ traffic_data = Some(<< >>)
    /\ out = <<NoDataDiag>>
    /\ best_route = None

\* C3: once the fetch is over no exception has reached main, main holds the
\* whole mock snapshot or None, and after a timeout (delay >= 0.15) or an
\* unavailable answer (choice False) it holds None and the matching
\* diagnostic was printed right after the "Fetching" line.
C3_FetchFailuresCaught ==
    /\ raised = "none"
    /\ pc # "Crashed"
    /\ pc # "Fetch" =>
          /\ traffic_data \in {None, Some(MOCK_TRAFFIC_DATA)}
          /\ ~FLess(network_delay[1], Threshold) =>
                /\ traffic_data = None
                /\ SubSeq(out, 1, 2) = <<FetchingLine, TimeoutDiag>>
          /\ (FLess(network_delay[1], Threshold) /\ choice = Some(FALSE)) =>
                /\ traffic_data = None
                /\ SubSeq(out, 1, 2) = <<FetchingLine, UnavailableDiag>>
          /\ (FLess(network_delay[1], Threshold) /\ choice = Some(TRUE)) =>
                /\ traffic_data = Some(MOCK_TRAFFIC_DATA)
                /\ \A i \in 1..Len(out) : out[i] \notin {TimeoutDiag, UnavailableDiag}

\* A fetch that timed out: main goes on with None.
C3_Witness ==
    /\ pc = "Evaluate"
    /\ traffic_data = None
    /\ out = <<FetchingLine, TimeoutDiag>>
    /\ raised = "none"

\* C4: main only ever moves from Fetch to Evaluate, from Evaluate to Report
\* and from Report to Reported-Success or Reported-Failure; when it has
\* ended it has taken each of the three steps once, in that order; and every
\* run ends in one of the two terminal states and stays there.
C4_LinearFlow ==
    /\ [][pc' # pc =>
            <<pc, pc'>> \in {<<"Fetch", "Evaluate">>,
                             <<"Evaluate", "Report">>,
                             <<"Report", "Reported-Success">>,
                             <<"Report", "Reported-Failure">>}]_vars
    /\ [](pc \in Terminal => steps = <<"Fetch", "Evaluate", "Report">>)
    /\ (<>[](pc = "Reported-Success") \/ <>[](pc = "Reported-Failure"))

\* A run that ended in Reported-Failure after the three steps.
C4_Witness ==
    /\ pc = "Reported-Failure"
    /\ steps = <<"Fetch", "Evaluate", "Report">>

\* C5: the process never ends abnormally, and a run that ended with no
\* snapshot printed the failure line last, never the success line, and
\* ended with status 0.
C5_FailureExitsZero ==
    /\ pc # "Crashed"
    /\ exit_status \in {None, Some(0)}
    /\ (pc \in Terminal /\ traffic_data = None) =>
          /\ pc = "Reported-Failure"
          /\ out[Len(out)] = FailureLine
          /\ \A i \in 1..Len(out) : out[i].text # SuccessText
          /\ exit_status = Some(0)

\* A run whose fetch answered "unavailable" and which ended with status 0.
C5_Witness ==
    /\ pc = "Reported-Failure"
    /\ traffic_data = None
    /\ UnavailableDiag \in {out[i] : i \in 1..Len(out)}
    /\ exit_status = Some(0)

\* C6 as stated: the three consumptions of the mock snapshot are equal, so
\* a run that reports success reports route_1 with 0.84 liters.
C6_ReportsRoute1 ==
    pc = "Reported-Success" =>
        \E cs \in {Consumptions(MOCK_TRAFFIC_DATA)} :
            /\ cs[1] = cs[2]
            /\ cs[2] = cs[3]
            /\ best_route = Some("route_1")
            /\ out[Len(out)] = Line(SuccessText, <<"route_1", <<0, 84>>>>)

\* C6 as amended: the consumptions of route_1 and route_3 are the same float
\* and that of route_2 is less; each prints as 0.84; a run that reports
\* success reports route_2, with route_2's consumption, printed as 0.84.
C6_ReportsRoute2 ==
    pc = "Reported-Success" =>
        \E cs \in {Consumptions(MOCK_TRAFFIC_DATA)} :
            /\ cs[1] = cs[3]
            /\ FLess(cs[2], cs[1])
            /\ \A i \in 1..3 : FormatF2(cs[i]) = <<0, 84>>
            /\ best_route = Some("route_2")
            /\ fuel_consumption = Some(cs[2])
            /\ out[Len(out)] = Line(SuccessText, <<"route_2", <<0, 84>>>>)

\* A run that reported success.
C6_Witness ==
    /\ pc = "Reported-Success"
    /\ traffic_data = Some(MOCK_TRAFFIC_DATA)
    /\ out[Len(out)].text = SuccessText

\* C7: estimate(0, m) is 0, and for d <= d2 and m <= m2 neither
\* estimate(d2, m) nor estimate(d, m2) is less than estimate(d, m).
C7_ZeroAndMonotone ==
    pc = "Estimated" =>
        /\ est_args[1].d = 0 => est_rets[1].dm = FZero
        /\ ~FLess(est_rets[1].d2m, est_rets[1].dm)
        /\ ~FLess(est_rets[1].dm2, est_rets[1].dm)

\* Two distances and two traffic conditions between which the estimate
\* grows.
C7_Witness ==
    /\ pc = "Estimated"
    /\ est_args[1].d < est_args[1].d2
    /\ est_args[1].m < est_args[1].m2
    /\ FLess(est_rets[1].dm, est_rets[1].d2m)
    /\ FLess(est_rets[1].dm, est_rets[1].dm2)

\* The progress lines and the final lines among the lines printed.
IsKeyLine(line) ==
    line.text \in {FetchingLine.text, CalculatingLine.text, SuccessText,
                   FailureLine.text}

KeyLines == SelectSeq(out, IsKeyLine)

\* C8: the "Fetching" line is the first line printed; the progress and
\* final lines come in the order "Fetching", "Calculating", final line; a
\* run that ended printed all three, exactly one final line, and printed it
\* last, on the failure path as on the success path.
C8_OutputOrder ==
    /\ out # << >> => out[1] = FetchingLine
    /\ Len(KeyLines) <= 3
    /\ Len(KeyLines) >= 1 => KeyLines[1] = FetchingLine
    /\ Len(KeyLines) >= 2 => KeyLines[2] = CalculatingLine
    /\ Len(KeyLines) = 3 => 
          /\ KeyLines[3].text \in {SuccessText, FailureLine.text}
          /\ KeyLines[3] = out[Len(out)]
          /\ pc \in Terminal
    /\ pc \in Terminal => Len(KeyLines) = 3
    /\ pc = "Reported-Success" => out[Len(out)].text = SuccessText
    /\ pc = "Reported-Failure" => out[Len(out)] = FailureLine

\* A run on the failure path that printed both progress lines.
C8_Witness ==
    /\ pc = "Reported-Failure"
    /\ KeyLines = <<FetchingLine, CalculatingLine, FailureLine>>
    /\ Len(out) > 3

\* What the fetch did, read from what main holds and what was printed.
FetchTimedOut ==
    traffic_data = None /\ SubSeq(out, 1, 2) = <<FetchingLine, TimeoutDiag>>
FetchUnavailable ==
    traffic_data = None /\ SubSeq(out, 1, 2) = <<FetchingLine, UnavailableDiag>>
FetchGaveSnapshot ==
    /\ traffic_data = Some(MOCK_TRAFFIC_DATA)
    /\ \A i \in 1..Len(out) : out[i] \notin {TimeoutDiag, UnavailableDiag}

\* C9 as stated: a delay above the threshold gives Timeout whatever the
\* choice, any other delay gives the snapshot or DataUnavailable.
C9_TimeoutAboveThreshold ==
    pc # "Fetch" =>
        /\ FLess(Threshold, network_delay[1]) => FetchTimedOut
        /\ ~FLess(Threshold, network_delay[1]) =>
              (FetchGaveSnapshot \/ FetchUnavailable)
        /\ traffic_data \in {None, Some(MOCK_TRAFFIC_DATA)}
        /\ FetchUnavailable => ~FetchTimedOut

\* C9 as amended: a delay of at least the threshold gives Timeout whatever
\* the choice; a delay below it gives the whole snapshot when the choice is
\* True and DataUnavailable when it is False; what main receives is the
\* whole mock snapshot or None.
C9_TimeoutFromThreshold ==
    pc # "Fetch" =>
        /\ ~FLess(network_delay[1], Threshold) => FetchTimedOut
        /\ FLess(network_delay[1], Threshold) =>
              /\ ~FetchTimedOut
              /\ choice = Some(TRUE) => FetchGaveSnapshot
              /\ choice = Some(FALSE) => FetchUnavailable
        /\ traffic_data \in {None, Some(MOCK_TRAFFIC_DATA)}
        /\ FetchUnavailable =>
              FLess(network_delay[1], Threshold) /\ ~FetchTimedOut

\* A delay equal to the threshold, with the choice True: Timeout.
C9_Witness ==
    /\ pc = "Evaluate"
    /\ network_delay = Some(Threshold)
    /\ choice = Some(TRUE)
    /\ FetchTimedOut

\* C10: a run whose fetch failed printed, in this order, "Fetching", the
\* fetch diagnostic, "Calculating", the selector's diagnostic and the failure
\* line, and nothing else; a run whose fetch succeeded printed "Fetching",
\* "Calculating" and the success line, and nothing else.
C10_Diagnostics ==
    pc \in Terminal =>
        IF traffic_data = None
        THEN \E diag \in {TimeoutDiag, UnavailableDiag} :
                out = <<FetchingLine, diag, CalculatingLine, NoDataDiag,
                        FailureLine>>
        ELSE /\ Len(out) = 3
             /\ SubSeq(out, 1, 2) = <<FetchingLine, CalculatingLine>>
             /\ out[3].text = SuccessText

\* A run whose fetch answered "unavailable": the selector still ran.
C10_Witness ==
    /\ pc = "Reported-Failure"
    /\ out = <<FetchingLine, UnavailableDiag, CalculatingLine, NoDataDiag,
               FailureLine>>
====
